---- MODULE Spec2Model ----
(***************************************************************************)
(* Model of database-dumper (src/main.py): dump() writes every table of a  *)
(* MySQL database into a directory tree, recover() replays such a tree     *)
(* into the database.                                                      *)
(*                                                                         *)
(* A Python str is a sequence of characters; a character is a one-token    *)
(* string.  A Python value is a record [t, s]: t is the type name, s the   *)
(* characters of a str.  A file is [exists, data].                         *)
(***************************************************************************)
EXTENDS Integers, Sequences, FiniteSets, TLC

\* ------------------------------------------------------------- bounds
MaxRows == 2
MaxRuns == 3

\* --------------------------------------------------------- characters
CR == "CR"
LF == "LF"
QUOTE == "QUOTE"
BSL == "BSL"

\* ------------------------------------------------------ Python values
PyNone == [t |-> "NoneType", s |-> <<>>]

PyStr(s) == [t |-> "str", s |-> s]

\* str(value), main.py lines 161 and 164: str(None) is "None", str of a str
\* is the str itself.
Str(v) == IF v.t = "NoneType" THEN <<"N", "o", "n", "e">> ELSE v.s

SENTINEL == <<"_">>

\* LONG_COLUMN, main.py line 10.
LONG_COLUMN == {"text", "mediumtext", "longtext"}

\* column["Type"] in LONG_COLUMN: membership of the whole type string.
IsLongPrefixMatch(column) ==
    column.Type \in LONG_COLUMN \cup {"tinytext"}

IsLong(column) == column.Type \in LONG_COLUMN

\* "column_{}".format(column["Field"])
ColumnDirName(column) == <<"column_", column.Field>>

\* The index dump_table puts in "{}.txt".format(i), i from enumerate().
DumpSidecarIndexOffByOne(i) == i + 1

DumpSidecarIndex(i) == i

\* The index recover_table puts in "{}.txt".format(lineNumber).
RecoverSidecarIndex(lineNumber) == lineNumber

\* ------------------------------------------------------------- json
\* json.dumps of one str (ensure_ascii): quote, backslash and the control
\* characters are escaped, so the output holds no raw CR or LF.
RECURSIVE JsonEscape(_)
JsonEscape(s) ==
    IF s = <<>> THEN <<>>
    ELSE LET c == Head(s)
             e == CASE c = QUOTE -> <<BSL, QUOTE>>
                    [] c = BSL -> <<BSL, BSL>>
                    [] c = LF -> <<BSL, "n">>
                    [] c = CR -> <<BSL, "r">>
                    [] OTHER -> <<c>>
         IN e \o JsonEscape(Tail(s))

RECURSIVE JsonJoin(_)
JsonJoin(list) ==
    IF list = <<>> THEN <<>>
    ELSE <<QUOTE>> \o JsonEscape(Head(list)) \o <<QUOTE>>
         \o (IF Len(list) > 1 THEN <<",", " ">> ELSE <<>>)
         \o JsonJoin(Tail(list))

\* json.dumps(text_list), a list of str.
JsonDumps(list) == <<"[">> \o JsonJoin(list) \o <<"]">>

\* json.loads(line) for a line json.dumps wrote: the array of its strings.
\* inStr: inside a string literal; cur: the characters of it read so far.
RECURSIVE JsonParse(_, _, _, _)
JsonParse(s, acc, cur, inStr) ==
    IF s = <<>> THEN acc
    ELSE LET c == Head(s) IN
         IF inStr
         THEN IF c = BSL
              THEN LET d == s[2]
                       u == CASE d = "n" -> LF
                              [] d = "r" -> CR
                              [] OTHER -> d
                   IN JsonParse(Tail(Tail(s)), acc, Append(cur, u), TRUE)
              ELSE IF c = QUOTE
                   THEN JsonParse(Tail(s), Append(acc, cur), <<>>, FALSE)
                   ELSE JsonParse(Tail(s), acc, Append(cur, c), TRUE)
         ELSE IF c = QUOTE
              THEN JsonParse(Tail(s), acc, <<>>, TRUE)
              ELSE JsonParse(Tail(s), acc, cur, FALSE)

JsonLoads(line) == JsonParse(line, <<>>, <<>>, FALSE)

\* ------------------------------------------------------- text files
\* f.read() of a file opened in text mode (newline=None): CR LF and a lone
\* CR both read as LF.
RECURSIVE ReadText(_)
ReadText(s) ==
    IF s = <<>> THEN <<>>
    ELSE IF Head(s) = CR
         THEN IF Len(s) > 1 /\ s[2] = LF
              THEN <<LF>> \o ReadText(Tail(Tail(s)))
              ELSE <<LF>> \o ReadText(Tail(s))
         ELSE <<Head(s)>> \o ReadText(Tail(s))

\* "for line in f": the lines of the text read, each with its LF; a last
\* line without LF is a line too.
RECURSIVE SplitLines(_, _)
SplitLines(s, cur) ==
    IF s = <<>> THEN (IF cur = <<>> THEN <<>> ELSE <<cur>>)
    ELSE IF Head(s) = LF
         THEN <<Append(cur, LF)>> \o SplitLines(Tail(s), <<>>)
         ELSE SplitLines(Tail(s), Append(cur, Head(s)))

FileLines(data) == SplitLines(ReadText(data), <<>>)

NoFile == [exists |-> FALSE, data |-> <<>>]

File(data) == [exists |-> TRUE, data |-> data]

\* ----------------------------------------------------------- database
\* The tables of the database, in the order "show tables" lists them.
Tables == <<"t1", "t2">>

TableSet == {Tables[n] : n \in 1..Len(Tables)}

\* Column descriptors as "desc <table>" returns them; of their six fields
\* the program reads Field and Type.
Column(f, ty) == [Field |-> f, Type |-> ty]

Schemas ==
    { <<Column("body", "text")>>,
      <<Column("id", "varchar(65535)"), Column("bio", "longtext")>> }

\* The cell values of t1: NULL and the str that equals the sentinel.
Values == {PyNone, PyStr(SENTINEL)}

Fields(cols) == {cols[n].Field : n \in 1..Len(cols)}

\* A row as the DictCursor returns it: column name -> value.
RowsOf(cols) == [Fields(cols) -> Values]

SeqUpTo(S, n) == UNION {[1..k -> S] : k \in 0..n}

NoTable == [exists |-> FALSE, cols |-> <<>>, rows |-> <<>>]

Table(cols, rows) == [exists |-> TRUE, cols |-> cols, rows |-> rows]

\* "show create table": the statement that creates the table again.
CreateStmt(name, cols) == [name |-> name, cols |-> cols]

EmptyStmt == [name |-> "", cols |-> <<>>]

\* What the engine does with INSERT INTO t VALUE (%s, ...) and data: one
\* value per column, in column order.
InsertedRow(cols, data) ==
    [f \in Fields(cols) |->
        PyStr(data[CHOOSE n \in 1..Len(cols) : cols[n].Field = f])]

EmptyFn == [x \in {} |-> 0]

Restrict(f, S) == [x \in S |-> f[x]]

\* ---------------------------------------------------------------- state
VARIABLES
    db,          \* table name -> committed table
    rootKind,    \* what is at the dataset root: "none", "file", "dir"
    rootEntries, \* the directory entries of the dataset root, by name
    pc,          \* where the running command stands; "idle" between runs
    action,      \* the command running, or the last one run
    conn,        \* the connection is open
    queue,       \* the tables still to process, the current one first
    listing,     \* the tables of this run as listed
    columns,     \* dump_table / recover_table: columns
    scan,        \* dump_table: the rows get_rows returned
    i,           \* dump_table: i of enumerate; recover_table: lineNumber
    j,           \* dump_table: position in the loop over columns
    text_list,   \* dump_table: text_list
    rowsBuf,     \* dump_table: rows
    lines,       \* recover_table: the lines of rows.txt not yet read
    bigDataFlags,\* recover_table: bigDataFlags
    outcome,     \* how the last run ended
    err,         \* the exception that ended the last run
    dropErr,     \* history: the exception the last DROP TABLE raised
    runs,        \* commands started
    stmtLog,     \* history: the statements this run sent, in order
    root0,       \* history: the dataset root when this run started
    db0,         \* history: the database when this run started
    dumped       \* history: table name -> the rows dump_table scanned

vars == <<db, rootKind, rootEntries, pc, action, conn, queue, listing,
          columns, scan, i, j, text_list, rowsBuf, lines, bigDataFlags,
          outcome, err, dropErr, runs, stmtLog, root0, db0, dumped>>

\* ------------------------------------------------------- dataset root
\* A directory entry of the dataset root: a regular file, or a table
\* directory with create_table.sql, desc_table.yaml, the column_<field>
\* directories (name -> index -> file) and rows.txt.
FileEntry ==
    [kind |-> "file", sql |-> NoFile, desc |-> NoFile,
     coldirs |-> EmptyFn, rows |-> NoFile]

EmptyDir ==
    [kind |-> "dir", sql |-> NoFile, desc |-> NoFile,
     coldirs |-> EmptyFn, rows |-> NoFile]

PutEntry(entries, name, e) ==
    [n \in DOMAIN entries \cup {name} |-> IF n = name THEN e ELSE entries[n]]

\* yaml.dump(columns) and yaml.load of it: a list of mappings of strings
\* loads as it was dumped; an empty file loads as None.
YamlDump(cols) == [doc |-> "list", items |-> cols]

EmptyDoc == [doc |-> "empty", items |-> <<>>]

\* dump(), lines 172-179: whatever is at data_dir is removed (rmtree of a
\* directory, remove of a file) and the directory is made anew.
FreshRootKeepsDirectory(kind, entries) ==
    IF kind = "dir" THEN entries ELSE EmptyFn

FreshRoot(kind, entries) == EmptyFn

\* ------------------------------------------------------------- errors
NoErr == [type |-> "", msg |-> "", stage |-> "", table |-> "", line |-> 0]

Error(type, msg, stage, table, line) ==
    [type |-> type, msg |-> msg, stage |-> stage, table |-> table,
     line |-> line]

\* What the engine answers to DROP TABLE of a table that is not there, as
\* the driver the handler is written for raises it.
UnknownTable(table) ==
    Error("InternalError", "Unknown table ", "drop", table, 0)

\* A failure of the connection or of the engine on a statement.
QueryFailed(stage, table, line) ==
    Error("OperationalError", "Lost connection", stage, table, line)

\* drop_table_if_exists, lines 121-126: an InternalError whose text holds
\* "Unknown table " is ignored, any other InternalError is raised again,
\* and an exception of another class is not caught at all.
DropErrorSuppressedAlways(e) == TRUE

DropErrorSuppressed(e) ==
    e.type = "InternalError" /\ e.msg = "Unknown table "

NoScan == [done |-> FALSE, rows |-> <<>>]

Perms(S) ==
    {f \in [1..Cardinality(S) -> S] :
        \A a, b \in 1..Cardinality(S) : f[a] = f[b] => a = b}

Stmt(op, table) == [op |-> op, table |-> table]

\* ----------------------------------------------------------------- Init
\* The database when the first command starts.  t1 has any schema of
\* Schemas and up to MaxRows rows over Values; t2 has a mediumtext and a
\* tinytext column and one row, whose values hold a quote, a backslash, a
\* carriage return and a line feed.
TableStates ==
    UNION {{Table(cols, rows) : rows \in SeqUpTo(RowsOf(cols), MaxRows)} :
             cols \in Schemas}

SecondTable ==
    Table(<<Column("note", "mediumtext"), Column("tag", "tinytext")>>,
          <<[f \in {"note", "tag"} |->
               IF f = "note" THEN PyStr(<<QUOTE, CR>>)
               ELSE PyStr(<<BSL, LF>>)]>>)

InitDbs ==
    {[t \in TableSet |-> IF t = "t1" THEN first ELSE SecondTable] :
        first \in TableStates}

InitRoots ==
    { [kind |-> "none", entries |-> EmptyFn],
      [kind |-> "file", entries |-> EmptyFn],
      [kind |-> "dir", entries |-> ("t2" :> FileEntry)] }

Init ==
    /\ db \in InitDbs
    /\ \E r \in InitRoots :
         /\ rootKind = r.kind
         /\ rootEntries = r.entries
         /\ root0 = r
    /\ db0 = db
    /\ pc = "idle"
    /\ action = "none"
    /\ conn = FALSE
    /\ queue = <<>>
    /\ listing = <<>>
    /\ columns = <<>>
    /\ scan = <<>>
    /\ i = 0
    /\ j = 0
    /\ text_list = <<>>
    /\ rowsBuf = <<>>
    /\ lines = <<>>
    /\ bigDataFlags = EmptyFn
    /\ outcome = "none"
    /\ err = NoErr
    /\ dropErr = NoErr
    /\ runs = 0
    /\ stmtLog = <<>>
    /\ dumped = [t \in TableSet |-> NoScan]

\* The locals of dump_table and recover_table, gone when the call returns.
ResetLocals ==
    /\ columns' = <<>>
    /\ scan' = <<>>
    /\ i' = 0
    /\ j' = 0
    /\ text_list' = <<>>
    /\ rowsBuf' = <<>>
    /\ lines' = <<>>
    /\ bigDataFlags' = EmptyFn

\* The start of a command: what the histories remember of it.
StartRun(a) ==
    /\ pc = "idle"
    /\ runs < MaxRuns
    /\ runs' = runs + 1
    /\ action' = a
    /\ root0' = [kind |-> rootKind, entries |-> rootEntries]
    /\ db0' = db
    /\ dropErr' = NoErr

\* The table loops of dump() and recover(), lines 183-188 and 250-255: try
\* and finally with no except clause; an exception closes the connection
\* and leaves the command, the remaining tables unprocessed.
AbortSkipTable(e) ==
    /\ err' = e
    /\ ResetLocals
    /\ IF queue = <<>>
       THEN /\ pc' = "idle"
            /\ outcome' = "raised"
            /\ conn' = FALSE
            /\ queue' = <<>>
       ELSE /\ pc' = IF Tail(queue) = <<>> THEN "finish"
                    ELSE IF action = "dump" THEN "d_sql" ELSE "r_check"
            /\ outcome' = "running"
            /\ conn' = conn
            /\ queue' = Tail(queue)

Abort(e) ==
    /\ err' = e
    /\ ResetLocals
    /\ pc' = "idle"
    /\ outcome' = "raised"
    /\ conn' = FALSE
    /\ queue' = <<>>

\* ------------------------------------------------------------ dump()
\* dump(), lines 172-179: the dataset root is removed and made anew before
\* connection() is called.
DumpStart ==
    /\ StartRun("dump")
    /\ rootKind' = "dir"
    /\ rootEntries' = FreshRoot(rootKind, rootEntries)
    /\ dumped' = [t \in TableSet |->
                    IF t \in DOMAIN rootEntries' THEN dumped[t] ELSE NoScan]
    /\ pc' = "connect"
    /\ outcome' = "running"
    /\ err' = NoErr
    /\ stmtLog' = <<>>
    /\ listing' = <<>>
    /\ UNCHANGED <<db, conn, queue, columns, scan, i, j, text_list, rowsBuf,
                   lines, bigDataFlags>>

\* connection(), lines 40-64, as dump() and recover() call it: a missing
\* config module or a missing item of it is a ConnectionError, which the
\* caller reports with error(), exit(1); a failure of pymysql.connect is
\* not a ConnectionError and leaves the command as any exception does.
Connect ==
    /\ pc = "connect"
    /\ \E cfg \in {"ok", "missing", "incomplete", "unreachable"} :
         IF cfg \in {"missing", "incomplete"}
         THEN /\ pc' = "idle"
              /\ outcome' = "exit1"
              /\ err' = Error("ConnectionError", cfg, "connect", "", 0)
              /\ UNCHANGED <<conn, queue, stmtLog, columns, scan, i, j,
                             text_list, rowsBuf, lines, bigDataFlags>>
         ELSE IF cfg = "unreachable"
         THEN /\ Abort(QueryFailed("connect", "", 0))
              /\ stmtLog' = Append(stmtLog, Stmt("connect", ""))
         ELSE /\ conn' = TRUE
              /\ pc' = IF action = "dump" THEN "d_list" ELSE "r_list"
              /\ stmtLog' = Append(stmtLog, Stmt("connect", ""))
              /\ UNCHANGED <<outcome, err, queue, columns, scan, i, j,
                             text_list, rowsBuf, lines, bigDataFlags>>
    /\ UNCHANGED <<db, rootKind, rootEntries, action, listing, dropErr, runs,
                   root0, db0, dumped>>

\* get_table_names, lines 75-83, in dump()'s for statement, line 184.
DumpListTables ==
    /\ pc = "d_list"
    /\ stmtLog' = Append(stmtLog, Stmt("show tables", ""))
    /\ \E ok \in BOOLEAN :
         IF ok
         THEN LET names == SelectSeq(Tables, LAMBDA t : db[t].exists) IN
              /\ queue' = names
              /\ listing' = names
              /\ pc' = IF names = <<>> THEN "finish" ELSE "d_sql"
              /\ UNCHANGED <<outcome, err, conn, columns, scan, i, j,
                             text_list, rowsBuf, lines, bigDataFlags>>
         ELSE /\ Abort(QueryFailed("list", "", 0))
              /\ UNCHANGED listing
    /\ UNCHANGED <<db, rootKind, rootEntries, action, dropErr, runs, root0,
                   db0, dumped>>

\* dump_table, lines 131-135: the table directory is made, create_table.sql
\* is opened for writing, and then the statement is fetched and written.
DumpTableSql ==
    /\ pc = "d_sql"
    /\ LET t == Head(queue) IN
       IF t \in DOMAIN rootEntries
       THEN /\ Abort(Error("FileExistsError", "", "mkdir", t, 0))
            /\ UNCHANGED <<rootEntries, stmtLog>>
       ELSE /\ stmtLog' = Append(stmtLog, Stmt("show create table", t))
            /\ \E ok \in BOOLEAN :
                 IF ok
                 THEN /\ rootEntries' = PutEntry(rootEntries, t,
                            [EmptyDir EXCEPT
                               !.sql = File(CreateStmt(t, db[t].cols))])
                      /\ pc' = "d_desc"
                      /\ UNCHANGED <<outcome, err, conn, queue, columns, scan,
                                     i, j, text_list, rowsBuf, lines,
                                     bigDataFlags>>
                 ELSE /\ rootEntries' = PutEntry(rootEntries, t,
                            [EmptyDir EXCEPT !.sql = File(EmptyStmt)])
                      /\ Abort(QueryFailed("show create table", t, 0))
    /\ UNCHANGED <<db, rootKind, action, listing, dropErr, runs, root0, db0,
                   dumped>>

\* The column_<field> directories dump_table makes, lines 143-148.
LongColumnDirs(cols) ==
    [d \in {ColumnDirName(cols[n]) : n \in {m \in 1..Len(cols) : IsLong(cols[m])}}
        |-> EmptyFn]

\* dump_table, lines 136-148: desc_table.yaml is opened for writing, the
\* columns are fetched and written, and a directory is made for every long
\* column.
DumpTableDesc ==
    /\ pc = "d_desc"
    /\ LET t == Head(queue) IN
       /\ stmtLog' = Append(stmtLog, Stmt("desc", t))
       /\ \E ok \in BOOLEAN :
            IF ok
            THEN /\ columns' = db[t].cols
                 /\ rootEntries' = [rootEntries EXCEPT
                        ![t].desc = File(YamlDump(db[t].cols)),
                        ![t].coldirs = LongColumnDirs(db[t].cols)]
                 /\ pc' = "d_scan"
                 /\ UNCHANGED <<outcome, err, conn, queue, scan, i, j,
                                text_list, rowsBuf, lines, bigDataFlags>>
            ELSE /\ rootEntries' = [rootEntries EXCEPT
                        ![t].desc = File(EmptyDoc)]
                 /\ Abort(QueryFailed("desc", t, 0))
    /\ UNCHANGED <<db, rootKind, action, listing, dropErr, runs, root0, db0,
                   dumped>>

\* get_rows, lines 105-111, in dump_table's for statement, lines 149-150.
DumpTableScan ==
    /\ pc = "d_scan"
    /\ LET t == Head(queue) IN
       /\ stmtLog' = Append(stmtLog, Stmt("select", t))
       /\ \E ok \in BOOLEAN :
            IF ok
            THEN /\ scan' = db[t].rows
                 /\ dumped' = [dumped EXCEPT
                                 ![t] = [done |-> TRUE, rows |-> db[t].rows]]
                 /\ i' = 0
                 /\ j' = 1
                 /\ text_list' = <<>>
                 /\ rowsBuf' = <<>>
                 /\ pc' = "d_rows"
                 /\ UNCHANGED <<outcome, err, conn, queue, columns, lines,
                                bigDataFlags>>
            ELSE /\ Abort(QueryFailed("select", t, 0))
                 /\ UNCHANGED dumped
    /\ UNCHANGED <<db, rootKind, rootEntries, action, listing, dropErr, runs,
                   root0, db0>>

\* dump_table, lines 156-164, one pass of the loop over the columns: a long
\* column's value goes to column_<field>/<i>.txt and "_" to text_list, any
\* other column's value goes to text_list.
DumpCellSkipsNone ==
    /\ pc = "d_rows"
    /\ i < Len(scan)
    /\ j <= Len(columns)
    /\ LET t == Head(queue)
           column == columns[j]
           value == scan[i + 1][column.Field]
       IN IF IsLong(column)
          THEN /\ rootEntries' =
                    IF value.t = "NoneType" THEN rootEntries
                    ELSE [rootEntries EXCEPT
                       ![t].coldirs[ColumnDirName(column)] =
                           PutEntry(@, DumpSidecarIndex(i), File(Str(value)))]
               /\ text_list' = Append(text_list, SENTINEL)
          ELSE /\ text_list' = Append(text_list, Str(value))
               /\ UNCHANGED rootEntries
    /\ j' = j + 1
    /\ UNCHANGED <<db, rootKind, pc, action, conn, queue, listing, columns,
                   scan, i, rowsBuf, lines, bigDataFlags, outcome, err,
                   dropErr, runs, stmtLog, root0, db0, dumped>>

DumpCell ==
    /\ pc = "d_rows"
    /\ i < Len(scan)
    /\ j <= Len(columns)
    /\ LET t == Head(queue)
           column == columns[j]
           value == scan[i + 1][column.Field]
       IN IF IsLong(column)
          THEN /\ rootEntries' = [rootEntries EXCEPT
                       ![t].coldirs[ColumnDirName(column)] =
                           PutEntry(@, DumpSidecarIndex(i), File(Str(value)))]
               /\ text_list' = Append(text_list, SENTINEL)
          ELSE /\ text_list' = Append(text_list, Str(value))
               /\ UNCHANGED rootEntries
    /\ j' = j + 1
    /\ UNCHANGED <<db, rootKind, pc, action, conn, queue, listing, columns,
                   scan, i, rowsBuf, lines, bigDataFlags, outcome, err,
                   dropErr, runs, stmtLog, root0, db0, dumped>>

\* dump_table, line 165: the row's line is appended to rows, in memory.
DumpRowLine ==
    /\ pc = "d_rows"
    /\ i < Len(scan)
    /\ j > Len(columns)
    /\ rowsBuf' = rowsBuf \o JsonDumps(text_list) \o <<LF>>
    /\ i' = i + 1
    /\ j' = 1
    /\ text_list' = <<>>
    /\ UNCHANGED <<db, rootKind, rootEntries, pc, action, conn, queue,
                   listing, columns, scan, lines, bigDataFlags, outcome, err,
                   dropErr, runs, stmtLog, root0, db0, dumped>>

\* dump_table, lines 166-167, after the last row: rows.txt is written, and
\* dump()'s loop goes to the next table.
DumpTableRows ==
    /\ pc = "d_rows"
    /\ i = Len(scan)
    /\ rootEntries' = [rootEntries EXCEPT ![Head(queue)].rows = File(rowsBuf)]
    /\ queue' = Tail(queue)
    /\ pc' = IF Tail(queue) = <<>> THEN "finish" ELSE "d_sql"
    /\ ResetLocals
    /\ UNCHANGED <<db, rootKind, action, conn, listing, outcome, err, dropErr,
                   runs, stmtLog, root0, db0, dumped>>

\* dump() and recover(), lines 187-189 and 254-256, after the last table:
\* the connection is closed and "Done!" is logged.
Finish ==
    /\ pc = "finish"
    /\ conn' = FALSE
    /\ outcome' = "done"
    /\ pc' = "idle"
    /\ UNCHANGED <<db, rootKind, rootEntries, action, queue, listing, columns,
                   scan, i, j, text_list, rowsBuf, lines, bigDataFlags, err,
                   dropErr, runs, stmtLog, root0, db0, dumped>>

\* --------------------------------------------------------- recover()
\* recover(), lines 245-246: the dataset root must be a directory.
RecoverStart ==
    /\ StartRun("recover")
    /\ stmtLog' = <<>>
    /\ listing' = <<>>
    /\ IF rootKind # "dir"
       THEN Abort(Error("RecoverError", "is not a directory", "root_check",
                        "", 0))
       ELSE /\ pc' = "connect"
            /\ outcome' = "running"
            /\ err' = NoErr
            /\ UNCHANGED <<conn, queue, columns, scan, i, j, text_list,
                           rowsBuf, lines, bigDataFlags>>
    /\ UNCHANGED <<db, rootKind, rootEntries, dumped>>

\* os.listdir(data_dir) in recover()'s for statement, line 251: the entries
\* of the dataset root in the order the file system gives them.
RecoverListDir ==
    /\ pc = "r_list"
    /\ \E order \in Perms(DOMAIN rootEntries) :
         /\ queue' = order
         /\ listing' = order
         /\ pc' = IF order = <<>> THEN "finish" ELSE "r_check"
    /\ UNCHANGED <<db, rootKind, rootEntries, action, conn, columns, scan, i,
                   j, text_list, rowsBuf, lines, bigDataFlags, outcome, err,
                   dropErr, runs, stmtLog, root0, db0, dumped>>

\* recover_table, lines 196-197: the entry must be a directory.
RecoverTableCheckSkipped ==
    /\ pc = "r_check"
    /\ pc' = "r_drop"
    /\ UNCHANGED <<db, rootKind, rootEntries, action, conn, queue, listing,
                   columns, scan, i, j, text_list, rowsBuf, lines,
                   bigDataFlags, outcome, err, dropErr, runs, stmtLog, root0,
                   db0, dumped>>

RecoverTableCheck ==
    /\ pc = "r_check"
    /\ LET t == Head(queue) IN
       IF rootEntries[t].kind # "dir"
       THEN Abort(Error("RecoverError", "is not a directory", "table_check",
                        t, 0))
       ELSE /\ pc' = "r_drop"
            /\ UNCHANGED <<conn, queue, columns, scan, i, j, text_list,
                           rowsBuf, lines, bigDataFlags, outcome, err>>
    /\ UNCHANGED <<db, rootKind, rootEntries, action, listing, dropErr, runs,
                   stmtLog, root0, db0, dumped>>

\* What DROP TABLE <table> can raise: nothing or a failure when the table
\* is there, the engine's "Unknown table" or a failure when it is not.
DropOutcomes(table) ==
    {IF db[table].exists THEN NoErr ELSE UnknownTable(table),
     QueryFailed("drop", table, 0),
     Error("InternalError", "Lock wait timeout exceeded", "drop", table, 0)}

\* recover_table, line 201, drop_table_if_exists, lines 118-126.
RecoverDrop ==
    /\ pc = "r_drop"
    /\ LET t == Head(queue) IN
       /\ stmtLog' = Append(stmtLog, Stmt("DROP", t))
       /\ \E e \in DropOutcomes(t) :
            /\ dropErr' = e
            /\ IF e = NoErr
               THEN /\ db' = [db EXCEPT ![t] = NoTable]
                    /\ pc' = "r_create"
                    /\ UNCHANGED <<conn, queue, columns, scan, i, j, text_list,
                                   rowsBuf, lines, bigDataFlags, outcome, err>>
               ELSE IF DropErrorSuppressed(e)
               THEN /\ pc' = "r_create"
                    /\ UNCHANGED <<db, conn, queue, columns, scan, i, j,
                                   text_list, rowsBuf, lines, bigDataFlags,
                                   outcome, err>>
               ELSE /\ Abort(e)
                    /\ UNCHANGED db
    /\ UNCHANGED <<rootKind, rootEntries, action, listing, runs, root0, db0,
                   dumped>>

\* recover_table, lines 205-206: create_table.sql is read and executed.
RecoverCreate ==
    /\ pc = "r_create"
    /\ LET t == Head(queue)
           f == rootEntries[t].sql
       IN IF ~f.exists
          THEN /\ Abort(Error("FileNotFoundError", "create_table.sql",
                              "create", t, 0))
               /\ UNCHANGED <<db, stmtLog>>
          ELSE /\ stmtLog' = Append(stmtLog, Stmt("CREATE", t))
               /\ \E ok \in BOOLEAN :
                    IF ok /\ f.data # EmptyStmt /\ ~db[f.data.name].exists
                    THEN /\ db' = [db EXCEPT
                                ![f.data.name] = Table(f.data.cols, <<>>)]
                         /\ pc' = "r_cols"
                         /\ UNCHANGED <<conn, queue, columns, scan, i, j,
                                        text_list, rowsBuf, lines,
                                        bigDataFlags, outcome, err>>
                    ELSE /\ Abort(QueryFailed("create", t, 0))
                         /\ UNCHANGED db
    /\ UNCHANGED <<rootKind, rootEntries, action, listing, dropErr, runs,
                   root0, db0, dumped>>

\* recover_table, lines 216-221: position -> "column_<field>" for the long
\* columns (positions counted from 1 here, from 0 in the code).
BigDataFlags(cols) ==
    [n \in {m \in 1..Len(cols) : IsLong(cols[m])} |-> ColumnDirName(cols[n])]

\* recover_table, lines 210-225: desc_table.yaml is loaded, the long
\* columns are flagged, rows.txt is opened and lineNumber starts at 0.
RecoverColumns ==
    /\ pc = "r_cols"
    /\ LET t == Head(queue)
           e == rootEntries[t]
       IN IF ~e.desc.exists
          THEN Abort(Error("FileNotFoundError", "desc_table.yaml", "columns",
                           t, 0))
          ELSE IF e.desc.data.doc # "list"
          THEN Abort(Error("TypeError", "NoneType is not iterable", "columns",
                           t, 0))
          ELSE IF ~e.rows.exists
          THEN Abort(Error("FileNotFoundError", "rows.txt", "rows", t, 0))
          ELSE /\ columns' = e.desc.data.items
               /\ bigDataFlags' = BigDataFlags(e.desc.data.items)
               /\ lines' = FileLines(e.rows.data)
               /\ i' = 0
               /\ pc' = "r_rows"
               /\ UNCHANGED <<conn, queue, scan, j, text_list, rowsBuf,
                              outcome, err>>
    /\ UNCHANGED <<db, rootKind, rootEntries, action, listing, dropErr, runs,
                   stmtLog, root0, db0, dumped>>

\* recover_table, lines 231-238: the line's array, with the entry of every
\* long column replaced by what column_<field>/<lineNumber>.txt reads as.
\* Missing: a file that is not there stands for itself.
Missing == <<"<missing>">>

SidecarRead(entry, dir, lineNumber) ==
    IF /\ dir \in DOMAIN entry.coldirs
       /\ RecoverSidecarIndex(lineNumber) \in DOMAIN entry.coldirs[dir]
    THEN ReadText(entry.coldirs[dir][RecoverSidecarIndex(lineNumber)].data)
    ELSE Missing

DecodeLine(entry, flags, line, lineNumber) ==
    LET data == JsonLoads(line) IN
    [n \in 1..Len(data) |->
        IF n \in DOMAIN flags
        THEN SidecarRead(entry, flags[n], lineNumber)
        ELSE data[n]]

\* recover_table, lines 226-240, one pass of the loop over the lines: the
\* line is decoded, inserted and committed by execute(), lines 68-71.
RecoverRowSkipsFailure ==
    /\ pc = "r_rows"
    /\ lines # <<>>
    /\ LET t == Head(queue)
           data == DecodeLine(rootEntries[t], bigDataFlags, Head(lines), i)
       IN /\ stmtLog' = Append(stmtLog, Stmt("INSERT", t))
          /\ \E ok \in BOOLEAN :
               /\ db' = IF ok THEN [db EXCEPT ![t].rows =
                                Append(@, InsertedRow(db[t].cols, data))]
                        ELSE db
               /\ i' = i + 1
               /\ lines' = Tail(lines)
               /\ UNCHANGED <<pc, conn, queue, columns, scan, j,
                              text_list, rowsBuf, bigDataFlags, outcome, err>>
    /\ UNCHANGED <<rootKind, rootEntries, action, listing, dropErr, runs,
                   root0, db0, dumped>>

RecoverRow ==
    /\ pc = "r_rows"
    /\ lines # <<>>
    /\ LET t == Head(queue)
           data == DecodeLine(rootEntries[t], bigDataFlags, Head(lines), i)
       IN IF \E n \in 1..Len(data) : data[n] = Missing
          THEN /\ Abort(Error("FileNotFoundError", "sidecar", "insert", t, i))
               /\ UNCHANGED <<db, stmtLog>>
          ELSE /\ stmtLog' = Append(stmtLog, Stmt("INSERT", t))
               /\ \E ok \in BOOLEAN :
                    IF /\ ok
                       /\ db[t].exists
                       /\ Len(data) = Len(db[t].cols)
                    THEN /\ db' = [db EXCEPT ![t].rows =
                                Append(@, InsertedRow(db[t].cols, data))]
                         /\ i' = i + 1
                         /\ lines' = Tail(lines)
                         /\ UNCHANGED <<pc, conn, queue, columns, scan, j,
                                        text_list, rowsBuf, bigDataFlags,
                                        outcome, err>>
                    ELSE /\ Abort(QueryFailed("insert", t, i))
                         /\ UNCHANGED db
    /\ UNCHANGED <<rootKind, rootEntries, action, listing, dropErr, runs,
                   root0, db0, dumped>>

\* recover_table, line 241, after the last line: recover()'s loop goes to
\* the next entry.
RecoverTableEnd ==
    /\ pc = "r_rows"
    /\ lines = <<>>
    /\ queue' = Tail(queue)
    /\ pc' = IF Tail(queue) = <<>> THEN "finish" ELSE "r_check"
    /\ ResetLocals
    /\ UNCHANGED <<db, rootKind, rootEntries, action, conn, listing, outcome,
                   err, dropErr, runs, stmtLog, root0, db0, dumped>>

Next ==
    \/ DumpStart
    \/ Connect
    \/ DumpListTables
    \/ DumpTableSql
    \/ DumpTableDesc
    \/ DumpTableScan
    \/ DumpCell
    \/ DumpRowLine
    \/ DumpTableRows
    \/ RecoverStart
    \/ RecoverListDir
    \/ RecoverTableCheck
    \/ RecoverDrop
    \/ RecoverCreate
    \/ RecoverColumns
    \/ RecoverRow
    \/ RecoverTableEnd
    \/ Finish

Spec == Init /\ [][Next]_vars

\* ---------------------------------------------------------------- claims
\* The table directories of the dataset root whose rows.txt is written.
DumpedDirs ==
    {t \in DOMAIN rootEntries :
        rootEntries[t].kind = "dir" /\ rootEntries[t].rows.exists}

\* The lines of a table directory's rows.txt.
RowLines(t) == FileLines(rootEntries[t].rows.data)

\* The column descriptors in a table directory's desc_table.yaml.
DescColumns(t) == rootEntries[t].desc.data.items

\* The type strings of the long-type set, written out.
LongTypeNames == {"text", "mediumtext", "longtext"}

\* Every line of rows.txt decoded as recover_table decodes it, in order.
DecodedRows(t) ==
    LET ls == RowLines(t)
        flags == BigDataFlags(DescColumns(t))
    IN [k \in 1..Len(ls) |-> DecodeLine(rootEntries[t], flags, ls[k], k - 1)]

\* The first n decoded lines as rows of a table with columns cols.
InsertedPrefix(t, cols, n) ==
    LET all == DecodedRows(t) IN
    [k \in 1..n |-> InsertedRow(cols, all[k])]

\* recover_table has read every line of the current table's rows.txt.
RecoverTableDone ==
    /\ action = "recover"
    /\ pc = "r_rows"
    /\ lines = <<>>

\* C1: when recover_table has replayed a table directory that dump_table
\* wrote, the table holds exactly the rows dump_table scanned, value for
\* value; a NULL cell is NULL again.
RoundTripExact ==
    RecoverTableDone =>
        db[Head(queue)].rows = dumped[Head(queue)].rows

\* In every written table directory, line k of rows.txt (counted from 0) is
\* scan row k, and column_c/k.txt holds the string form of scan row k's
\* value of long column c.
DumpIndexCorrelation ==
    \A t \in DumpedDirs :
       LET ls == RowLines(t) IN
       /\ Len(ls) = Len(dumped[t].rows)
       /\ \A k \in 1..Len(ls) :
            \A n \in 1..Len(DescColumns(t)) :
               LET c == DescColumns(t)[n]
                   dir == <<"column_", c.Field>>
               IN c.Type \in LongTypeNames =>
                    /\ dir \in DOMAIN rootEntries[t].coldirs
                    /\ (k - 1) \in DOMAIN rootEntries[t].coldirs[dir]
                    /\ rootEntries[t].coldirs[dir][k - 1].data =
                          Str(dumped[t].rows[k][c.Field])

\* In recover_table's insert phase lineNumber is the number of rows
\* inserted, and the row inserted from line k holds, for long column c,
\* what column_c/k.txt reads as, which is the string form of scan row k's
\* value as a text file gives it back.
RecoverIndexCorrelation ==
    (action = "recover" /\ pc = "r_rows") =>
       LET t == Head(queue) IN
       /\ i = Len(db[t].rows)
       /\ \A k \in 1..Len(db[t].rows) :
            \A n \in 1..Len(db[t].cols) :
               LET c == db[t].cols[n]
                   dir == <<"column_", c.Field>>
               IN c.Type \in LongTypeNames =>
                    /\ db[t].rows[k][c.Field] =
                         PyStr(ReadText(rootEntries[t].coldirs[dir][k - 1].data))
                    /\ db[t].rows[k][c.Field] =
                         PyStr(ReadText(Str(dumped[t].rows[k][c.Field])))

\* C2: the index dump_table names a sidecar file by is the row's line
\* number in rows.txt, and recover_table reads, for the line with number k,
\* the sidecar files named k: the long value inserted for line k is the one
\* dumped for scan row k.
SidecarIndexCorrelation ==
    [](/\ action = "dump" => DumpIndexCorrelation
       /\ RecoverIndexCorrelation)

\* C2 witness: recover_table has inserted two rows of t1 whose long values
\* differ.
SidecarIndexCorrelationWitness ==
    /\ action = "recover"
    /\ pc = "r_rows"
    /\ Head(queue) = "t1"
    /\ Len(db["t1"].rows) = 2
    /\ \E n \in 1..Len(db["t1"].cols) :
         /\ db["t1"].cols[n].Type \in LongTypeNames
         /\ db["t1"].rows[1][db["t1"].cols[n].Field] #
              db["t1"].rows[2][db["t1"].cols[n].Field]

\* C3 as claimed: every line of rows.txt is an array with one entry per
\* column descriptor, and the entry at a position is "_" if and only if
\* the column's type is one of text, mediumtext, longtext.
RowEncodingSentinelIff ==
    \A t \in DumpedDirs :
       LET ls == RowLines(t) IN
       \A k \in 1..Len(ls) :
          LET arr == JsonLoads(ls[k]) IN
          /\ Len(arr) = Len(DescColumns(t))
          /\ \A n \in 1..Len(arr) :
               arr[n] = <<"_">> <=> DescColumns(t)[n].Type \in LongTypeNames

\* Every line of rows.txt is an array with one entry per column
\* descriptor; at the position of a long-type column the entry is "_" and
\* the value is in the column's sidecar directory; at any other position
\* the entry is the string form of the cell value and the column has no
\* sidecar directory.
RowEncodingHolds ==
    \A t \in DumpedDirs :
       LET ls == RowLines(t) IN
       \A k \in 1..Len(ls) :
          LET arr == JsonLoads(ls[k]) IN
          /\ Len(arr) = Len(DescColumns(t))
          /\ \A n \in 1..Len(arr) :
               LET c == DescColumns(t)[n]
                   dir == <<"column_", c.Field>>
               IN IF c.Type \in LongTypeNames
                  THEN /\ arr[n] = <<"_">>
                       /\ dir \in DOMAIN rootEntries[t].coldirs
                       /\ (k - 1) \in DOMAIN rootEntries[t].coldirs[dir]
                  ELSE /\ arr[n] = Str(dumped[t].rows[k][c.Field])
                       /\ dir \notin DOMAIN rootEntries[t].coldirs

\* C3 as amended: in every state of a dump, running or ended, every line
\* of rows.txt is an array with one entry per column descriptor; at the
\* position of a column whose type is exactly one of text, mediumtext,
\* longtext the entry is "_" and the value is stored out of line; at any
\* other position the entry is the string form of the cell value, whatever
\* that value is, and it is stored in line.
RowEncoding == [](action = "dump" => RowEncodingHolds)

\* C3 witness: t1 is dumped with a scalar column whose cell is the str "_"
\* beside a long column, and t2 with its tinytext column.
RowEncodingWitness ==
    /\ {"t1", "t2"} \subseteq DumpedDirs
    /\ Len(DescColumns("t1")) = 2
    /\ \E k \in 1..Len(dumped["t1"].rows) :
         /\ dumped["t1"].rows[k]["id"] = PyStr(<<"_">>)
         /\ dumped["t1"].rows[k]["bio"] = PyNone

\* C4: a command that ends on a configuration error has changed neither
\* the dataset root nor the database and has sent no statement.
ConfigErrorNoSideEffects ==
    outcome = "exit1" =>
        /\ rootKind = root0.kind
        /\ rootEntries = root0.entries
        /\ db = db0
        /\ stmtLog = <<>>

\* C5: in recover_table's drop step, the engine's "Unknown table" for a
\* table that is not there lets recovery go on to the create step, and any
\* other exception of the drop ends the command with that exception, the
\* DROP being the last statement sent.
IdempotentDrop ==
    [][pc = "r_drop" =>
         /\ (~db[Head(queue)].exists /\ dropErr' = UnknownTable(Head(queue)))
              => (pc' = "r_create" /\ outcome' = "running" /\ db' = db)
         /\ (dropErr' \notin {NoErr, UnknownTable(Head(queue))})
              => /\ pc' = "idle"
                 /\ outcome' = "raised"
                 /\ err' = dropErr'
                 /\ db' = db
                 /\ stmtLog' = Append(stmtLog, Stmt("DROP", Head(queue)))]_vars

\* C5 witness: the drop of a table that is not there was passed over and
\* recovery stands at the create step.
IdempotentDropWitness ==
    /\ pc = "r_create"
    /\ dropErr.msg = "Unknown table "
    /\ ~db[Head(queue)].exists

\* C6: once dump has started, the dataset root is a directory that is
\* empty until the first table is dumped; after a dump that ended well it
\* holds one written table directory per table of the database and nothing
\* else.
DestructiveDump ==
    /\ (action = "dump" /\ pc \in {"connect", "d_list"}) =>
         (rootKind = "dir" /\ rootEntries = EmptyFn)
    /\ (action = "dump" /\ outcome = "done") =>
         /\ rootKind = "dir"
         /\ DOMAIN rootEntries = {t \in TableSet : db[t].exists}
         /\ DumpedDirs = DOMAIN rootEntries

\* C6 witness: a dump ended well where a directory with a stray file was.
DestructiveDumpWitness ==
    /\ action = "dump"
    /\ outcome = "done"
    /\ root0.kind = "dir"
    /\ root0.entries # EmptyFn

\* C7: all through recover_table's insert phase the table holds exactly the
\* first lineNumber decoded lines of rows.txt, in order; after a failure at
\* line k it holds exactly the first k; and when the last line is read it
\* holds them all, whatever it held when the command started.
PerRowCommitPrefix ==
    /\ (action = "recover" /\ pc = "r_rows") =>
         LET t == Head(queue) IN
         /\ i + Len(lines) = Len(RowLines(t))
         /\ db[t].rows = InsertedPrefix(t, db[t].cols, i)
    /\ (action = "recover" /\ outcome = "raised" /\ err.stage = "insert") =>
         /\ err.line < Len(RowLines(err.table))
         /\ db[err.table].rows =
              InsertedPrefix(err.table, db[err.table].cols, err.line)

\* C7 witness: recover_table has replayed both lines of t1's rows.txt into
\* a table that held one row, left by a failed recovery, when the command
\* started.
PerRowCommitPrefixWitness ==
    /\ RecoverTableDone
    /\ Head(queue) = "t1"
    /\ Len(db["t1"].rows) = 2
    /\ db0["t1"].exists
    /\ Len(db0["t1"].rows) = 1

\* The place of a table in this run's listing.
ListingIndex(t) == CHOOSE n \in 1..Len(listing) : listing[n] = t

\* The statements of this run about tables come table by table, in the
\* order of the listing, and none is about a table that is yet to come.
SequentialTables ==
    /\ \A a, b \in 1..Len(stmtLog) :
         (a < b /\ stmtLog[a].table # "" /\ stmtLog[b].table # "") =>
            ListingIndex(stmtLog[a].table) <= ListingIndex(stmtLog[b].table)
    /\ \A n \in 2..Len(queue) :
         /\ \A a \in 1..Len(stmtLog) : stmtLog[a].table # queue[n]
         /\ action = "dump" => queue[n] \notin DOMAIN rootEntries

\* The current table of a running command, "" outside the table loop.
CurrentTable == IF queue = <<>> THEN "" ELSE Head(queue)

\* A step in which an exception is raised and not handled ends the command
\* there: the connection is closed, no table is left to process, and every
\* table but the current one is as it was, in the database and on disk.
FailStop ==
    (err = NoErr /\ err' # NoErr) =>
        /\ pc' = "idle"
        /\ outcome' \in {"raised", "exit1"}
        /\ conn' = FALSE
        /\ queue' = <<>>
        /\ \A t \in TableSet \ {CurrentTable} :
             /\ db'[t] = db[t]
             /\ (t \in DOMAIN rootEntries') = (t \in DOMAIN rootEntries)
             /\ t \in DOMAIN rootEntries => rootEntries'[t] = rootEntries[t]

\* C8: dump and recover process the tables one after another in the order
\* listed, and a failure on one table ends the command: no later table is
\* touched and the earlier ones stay as they were.
FailFast == []SequentialTables /\ [][FailStop]_vars

\* C8 witness: a dump failed on t1, the first of two tables listed, and t2
\* has no directory.
FailFastWitness ==
    /\ action = "dump"
    /\ outcome = "raised"
    /\ listing = <<"t1", "t2">>
    /\ err.table = "t1"
    /\ "t2" \notin DOMAIN rootEntries

\* C9: a recover whose dataset root is not a directory opens no connection
\* and sends no statement; and recover sends statements only about entries
\* that are directories, so the table named by an entry that is not one is
\* as it was when the command started.
RecoverChecksFirst ==
    /\ (action = "recover" /\ rootKind # "dir") =>
         (stmtLog = <<>> /\ db = db0 /\ ~conn)
    /\ action = "recover" =>
         \A t \in DOMAIN rootEntries :
            rootEntries[t].kind # "dir" =>
               /\ \A a \in 1..Len(stmtLog) : stmtLog[a].table # t
               /\ db[t] = db0[t]

\* C9 witness: recover_table refused the entry t2, a regular file, while
\* the database holds a table t2.
RecoverChecksFirstWitness ==
    /\ action = "recover"
    /\ outcome = "raised"
    /\ err.stage = "table_check"
    /\ err.table = "t2"
    /\ db["t2"].exists

\* The lines dump_table has built in rows so far.
BufferedLines == SplitLines(rowsBuf, <<>>)

\* For every line built in memory or present in rows.txt and every long
\* column, the sidecar file with the line's number is written.
SidecarsWritten ==
    /\ \A t \in DumpedDirs :
         \A k \in 1..Len(RowLines(t)) :
            \A n \in 1..Len(DescColumns(t)) :
               LET c == DescColumns(t)[n]
                   dir == <<"column_", c.Field>>
               IN c.Type \in LongTypeNames =>
                    /\ dir \in DOMAIN rootEntries[t].coldirs
                    /\ (k - 1) \in DOMAIN rootEntries[t].coldirs[dir]
                    /\ rootEntries[t].coldirs[dir][k - 1].exists
    /\ (action = "dump" /\ pc = "d_rows") =>
         \A k \in 1..Len(BufferedLines) :
            \A n \in 1..Len(columns) :
               LET dir == <<"column_", columns[n].Field>> IN
               columns[n].Type \in LongTypeNames =>
                  /\ dir \in DOMAIN rootEntries[Head(queue)].coldirs
                  /\ (k - 1) \in DOMAIN rootEntries[Head(queue)].coldirs[dir]

\* C10: in every state of a dump, so also in a dump interrupted there,
\* every row line built in memory or present in rows.txt has, for every
\* long column, its sidecar file written.
SidecarsPrecedeLines == [](action = "dump" => SidecarsWritten)

\* C10 witness: dump_table stands between two rows of t1, one line built
\* and rows.txt not yet written.
SidecarsPrecedeLinesWitness ==
    /\ action = "dump"
    /\ pc = "d_rows"
    /\ Head(queue) = "t1"
    /\ Len(BufferedLines) = 1
    /\ Len(scan) = 2
    /\ \E n \in 1..Len(columns) : columns[n].Type \in LongTypeNames
    /\ ~rootEntries["t1"].rows.exists

====
